---- MODULE Spec2Model ----
(***************************************************************************)
(* A model of axum-service-errors (src/src/lib.rs): the ServiceError       *)
(* record, its builder calls, message formatting, serialization, cloning,  *)
(* the process-wide default response builder and into_response.            *)
(*                                                                         *)
(* Representation.  A Rust String is a sequence of one-character strings.  *)
(* Option<T> is a sequence of length 0 (None) or 1 (Some).  A HashMap is   *)
(* the sequence of its <<key, value>> entries in the order iter() visits   *)
(* them; that order is unspecified in Rust, so inserting a new key may     *)
(* place it anywhere.                                                      *)
(***************************************************************************)
EXTENDS Integers, Sequences, FiniteSets, TLC

VARIABLES
    err,                        \* Option<ServiceError>: the error being built / handed over
    cloned,                     \* Option<ServiceError>: the result of err.clone()
    cloneOf,                    \* Option<ServiceError>: the value clone() was called on
    DEFAULT_RESPONSE_BUILDER,   \* the OnceLock: Option<builder>
    setter,                     \* per thread: its call of set_default_response_builder
    response,                   \* Option: the last Response produced by into_response
    serialized,                 \* Option: the last serde serialization of err
    formatted,                  \* Option: the last result of format_message
    lastWrite,                  \* per key: Option of the last value written by parameter(s)
    writeCount,                 \* number of <<key, value>> items written by parameter(s)
    paramCalls,                 \* number of parameter / parameters calls made on err
    stage                       \* "start" | "building" | "handed"

vars == <<err, cloned, cloneOf, DEFAULT_RESPONSE_BUILDER, setter, response,
          serialized, formatted, lastWrite, writeCount, paramCalls, stage>>

None == <<>>
Some(x) == <<x>>

(***************************************************************************)
(* Bounds of the model.                                                    *)
(***************************************************************************)
MaxArgs == 1            \* bind calls per error in Spec
MaxFormatArgs == 2      \* bind calls per error in SpecFormat
MaxTemplateTokens == 3  \* tokens of a message template in SpecFormat
MaxParamCalls == 2      \* parameter / parameters calls per error in SpecParams
MaxSpecParamCalls == 1  \* parameters calls per error in Spec and SpecStatus
MaxIterLen == 2         \* items of the iterable given to parameters()
NumSetters == 2         \* threads calling set_default_response_builder

(***************************************************************************)
(* Text.                                                                   *)
(***************************************************************************)
Digit(d) == <<"0", "1", "2", "3", "4", "5", "6", "7", "8", "9">>[d + 1]

\* Display of an unsigned integer: its decimal digits.
RECURSIVE ToDecimal(_)
ToDecimal(n) ==
    IF n < 10 THEN <<Digit(n)>> ELSE ToDecimal(n \div 10) \o <<Digit(n % 10)>>

\* Display of a signed integer.
DisplayInt(i) == IF i < 0 THEN <<"-">> \o ToDecimal(0 - i) ELSE ToDecimal(i)

\* [String]::join(sep)
RECURSIVE join(_, _)
join(parts, sep) ==
    IF parts = <<>> THEN <<>>
    ELSE IF Len(parts) = 1 THEN parts[1]
    ELSE parts[1] \o sep \o join(Tail(parts), sep)

StartsWith(s, pat) == Len(s) >= Len(pat) /\ SubSeq(s, 1, Len(pat)) = pat

\* str::replace(pat, to): every non-overlapping match of pat, left to right.
RECURSIVE replace(_, _, _)
replace(s, pat, to) ==
    IF Len(s) < Len(pat) THEN s
    ELSE IF StartsWith(s, pat)
         THEN to \o replace(SubSeq(s, Len(pat) + 1, Len(s)), pat, to)
         ELSE <<s[1]>> \o replace(Tail(s), pat, to)

(***************************************************************************)
(* ParameterValue: <<"String", s>>, <<"Integer", i>>, <<"Boolean", b>>,    *)
(* <<"Array", items>>, <<"Null">>.                                         *)
(***************************************************************************)
PVString(s) == <<"String", s>>
PVInteger(i) == <<"Integer", i>>
PVBoolean(b) == <<"Boolean", b>>
PVArray(items) == <<"Array", items>>
PVNull == <<"Null">>

RECURSIVE DisplayValue(_)
RECURSIVE DisplayItems(_)
DisplayValue(v) ==
    CASE v[1] = "String" -> v[2]
      [] v[1] = "Integer" -> DisplayInt(v[2])
      [] v[1] = "Boolean" -> IF v[2] THEN <<"t", "r", "u", "e">>
                                     ELSE <<"f", "a", "l", "s", "e">>
      [] v[1] = "Array" -> <<"[">> \o DisplayItems(v[2]) \o <<"]">>
      [] v[1] = "Null" -> <<"n", "u", "l", "l">>
DisplayItems(items) ==
    IF items = <<>> THEN <<>>
    ELSE IF Len(items) = 1 THEN DisplayValue(items[1])
    ELSE DisplayValue(items[1]) \o <<",", " ">> \o DisplayItems(Tail(items))

(***************************************************************************)
(* HashMap<String, ParameterValue> as its entries in iteration order.      *)
(***************************************************************************)
Keys(map) == {map[i][1] : i \in 1..Len(map)}

HasKey(map, k) == \E i \in 1..Len(map) : map[i][1] = k

MapGet(map, k) == map[CHOOSE i \in 1..Len(map) : map[i][1] = k][2]

InsertAt(map, p, entry) ==
    SubSeq(map, 1, p - 1) \o <<entry>> \o SubSeq(map, p, Len(map))

\* An insert that keeps the value of a key already present.
HashMapInsert_keep_first(map, k, v) ==
    IF HasKey(map, k) THEN {map}
    ELSE {InsertAt(map, p, <<k, v>>) : p \in 1..(Len(map) + 1)}

\* HashMap::insert: the maps that can result.  An existing key keeps its
\* place and takes the new value; a new key lands anywhere in the order.
HashMapInsert(map, k, v) ==
    IF HasKey(map, k)
    THEN {[i \in 1..Len(map) |-> IF map[i][1] = k THEN <<k, v>> ELSE map[i]]}
    ELSE {InsertAt(map, p, <<k, v>>) : p \in 1..(Len(map) + 1)}

(***************************************************************************)
(* ServiceError and its builder calls.                                     *)
(***************************************************************************)
new(code, name, status, message) ==
    [code |-> code,
     name |-> name,
     http_status |-> status,
     message |-> message,
     arguments |-> <<>>,
     parameters |-> None,
     response_builder |-> None]

bind(self, value) == [self EXCEPT !.arguments = Append(@, value)]

\* Option::get_or_insert_with(HashMap::new)
get_or_insert_with(opt) == IF opt = None THEN <<>> ELSE opt[1]

\* parameter(key, value): the errors that can result (one per iteration order).
parameter(self, key, value) ==
    {[self EXCEPT !.parameters = Some(m)] :
        m \in HashMapInsert(get_or_insert_with(self.parameters), key, value)}

RECURSIVE InsertAll(_, _)
InsertAll(maps, params) ==
    IF params = <<>> THEN maps
    ELSE InsertAll(UNION {HashMapInsert(m, params[1][1], params[1][2]) : m \in maps},
                   Tail(params))

\* parameters(iterable): the mapping is created even when the iterable is empty.
parameters(self, params) ==
    {[self EXCEPT !.parameters = Some(m)] :
        m \in InsertAll({get_or_insert_with(self.parameters)}, params)}

with_response_builder(self, builder) ==
    [self EXCEPT !.response_builder = Some(builder)]

\* A clone that keeps the response builder.
clone_keeps_builder(self) == self

\* impl Clone for ServiceError
clone(self) ==
    [code |-> self.code,
     name |-> self.name,
     http_status |-> self.http_status,
     message |-> self.message,
     arguments |-> self.arguments,
     parameters |-> self.parameters,
     response_builder |-> None]

\* A placeholder numbered from one.
placeholder_one_based(i) == <<"{">> \o ToDecimal(i + 1) \o <<"}">>

\* format!("{{{i}}}")
placeholder(i) == <<"{">> \o ToDecimal(i) \o <<"}">>

\* The loop of format_message over arguments[from..], applied to formatted.
RECURSIVE format_loop(_, _, _)
format_loop(text, arguments, i) ==
    IF i > Len(arguments) THEN text
    ELSE format_loop(replace(text, placeholder(i - 1), arguments[i]), arguments, i + 1)

format_message(self) == format_loop(self.message, self.arguments, 1)

(***************************************************************************)
(* The process-wide default response builder.                              *)
(***************************************************************************)
\* A cell that takes every write (last writer wins).
OnceLockSet_overwrite(cell, value) == <<Some(value), "Ok">>

\* OnceLock::set: <<the cell afterwards, the Result>>.
OnceLockSet(cell, value) ==
    IF cell = None THEN <<Some(value), "Ok">> ELSE <<cell, "Err">>

get_default_response_builder(cell) == cell

(***************************************************************************)
(* Rendering.                                                              *)
(***************************************************************************)
\* StatusCode::from_u16 of the http crate: Ok for 100..=999.
from_u16(src) == IF src >= 100 /\ src < 1000 THEN Some(src) ELSE None

INTERNAL_SERVER_ERROR == 500

unwrap_or(opt, default) == IF opt = None THEN default ELSE opt[1]

ParamDisplay(params) ==
    [i \in 1..Len(params) |-> params[i][1] \o <<":", " ">> \o DisplayValue(params[i][2])]

\* "Error {}: {} - {}"
ErrorHead(self) ==
    <<"E", "r", "r", "o", "r", " ">> \o ToDecimal(self.code) \o <<":", " ">>
        \o self.name \o <<" ", "-", " ">> \o format_message(self)

\* " (Parameters: {{{}}})"
ParametersTail(params) ==
    <<" ", "(", "P", "a", "r", "a", "m", "e", "t", "e", "r", "s", ":", " ", "{">>
        \o join(ParamDisplay(params), <<",", " ">>) \o <<"}", ")">>

\* The fallback branch of into_response.
FallbackText(self) ==
    IF self.parameters # None
    THEN ErrorHead(self) \o ParametersTail(self.parameters[1])
    ELSE ErrorHead(self)

\* A plain-text builder that leaves the suffix out for an empty mapping.
PlainTextBuild_skips_empty(error) ==
    LET text == IF error.parameters # None /\ error.parameters[1] # <<>>
                THEN ErrorHead(error) \o ParametersTail(error.parameters[1])
                ELSE ErrorHead(error)
    IN  <<text, "text/plain">>

\* impl ResponseBuilder for PlainTextResponseBuilder
PlainTextBuild(error) ==
    LET text == IF error.parameters # None
                THEN ErrorHead(error) \o ParametersTail(error.parameters[1])
                ELSE ErrorHead(error)
    IN  <<text, "text/plain">>

(***************************************************************************)
(* serde.  A serialized struct is the sequence of its <<field, value>>     *)
(* pairs; a value is <<"u32", n>>, <<"str", s>> or <<"map", entries>>.     *)
(***************************************************************************)
\* The field names serde writes.
FieldCode == <<"c", "o", "d", "e">>
FieldName == <<"n", "a", "m", "e">>
FieldMessage == <<"m", "e", "s", "s", "a", "g", "e">>
FieldParameters == <<"p", "a", "r", "a", "m", "e", "t", "e", "r", "s">>
FieldHttpStatus == <<"h", "t", "t", "p", "_", "s", "t", "a", "t", "u", "s">>
FieldArguments == <<"a", "r", "g", "u", "m", "e", "n", "t", "s">>
FieldResponseBuilder ==
    <<"r", "e", "s", "p", "o", "n", "s", "e", "_", "b", "u", "i", "l", "d", "e", "r">>

\* The derive without #[serde(skip)] on http_status.
SerializeServiceError_no_skip(self) ==
    <<<<FieldCode, <<"u32", self.code>>>>,
      <<FieldName, <<"str", self.name>>>>,
      <<FieldHttpStatus, <<"u32", self.http_status>>>>,
      <<FieldMessage, <<"str", self.message>>>>>>
    \o (IF self.parameters = None THEN <<>>
        ELSE <<<<FieldParameters, <<"map", self.parameters[1]>>>>>>)

\* #[derive(Serialize)] on ServiceError: http_status, arguments and
\* response_builder are #[serde(skip)]; parameters is skipped when None.
SerializeServiceError(self) ==
    <<<<FieldCode, <<"u32", self.code>>>>,
      <<FieldName, <<"str", self.name>>>>,
      <<FieldMessage, <<"str", self.message>>>>>>
    \o (IF self.parameters = None THEN <<>>
        ELSE <<<<FieldParameters, <<"map", self.parameters[1]>>>>>>)

\* #[derive(Serialize)] on JsonResponseBody, as JsonResponseBuilder::build fills it.
SerializeJsonResponseBody(error) ==
    <<<<FieldCode, <<"u32", error.code>>>>,
      <<FieldName, <<"str", error.name>>>>,
      <<FieldMessage, <<"str", format_message(error)>>>>>>
    \o (IF error.parameters = None THEN <<>>
        ELSE <<<<FieldParameters, <<"map", error.parameters[1]>>>>>>)

FieldNames(fields) == {fields[i][1] : i \in 1..Len(fields)}

FieldValue(fields, name) == fields[CHOOSE i \in 1..Len(fields) : fields[i][1] = name][2]

\* serde_json's string escaping of the quote and the backslash.
RECURSIVE JsonEscape(_)
JsonEscape(s) ==
    IF s = <<>> THEN <<>>
    ELSE (IF s[1] = "\"" THEN <<"\\", "\"">>
          ELSE IF s[1] = "\\" THEN <<"\\", "\\">>
          ELSE <<s[1]>>) \o JsonEscape(Tail(s))

JsonString(s) == <<"\"">> \o JsonEscape(s) \o <<"\"">>

\* #[serde(untagged)] ParameterValue written by serde_json.
RECURSIVE JsonParameterValue(_)
RECURSIVE JsonItems(_)
JsonParameterValue(v) ==
    CASE v[1] = "String" -> JsonString(v[2])
      [] v[1] = "Integer" -> DisplayInt(v[2])
      [] v[1] = "Boolean" -> IF v[2] THEN <<"t", "r", "u", "e">>
                                     ELSE <<"f", "a", "l", "s", "e">>
      [] v[1] = "Array" -> <<"[">> \o JsonItems(v[2]) \o <<"]">>
      [] v[1] = "Null" -> <<"n", "u", "l", "l">>
JsonItems(items) ==
    IF items = <<>> THEN <<>>
    ELSE IF Len(items) = 1 THEN JsonParameterValue(items[1])
    ELSE JsonParameterValue(items[1]) \o <<",">> \o JsonItems(Tail(items))

JsonMapEntries(map) ==
    [i \in 1..Len(map) |-> JsonString(map[i][1]) \o <<":">> \o JsonParameterValue(map[i][2])]

JsonFieldValue(v) ==
    CASE v[1] = "u32" -> ToDecimal(v[2])
      [] v[1] = "str" -> JsonString(v[2])
      [] v[1] = "map" -> <<"{">> \o join(JsonMapEntries(v[2]), <<",">>) \o <<"}">>

JsonFields(fields) ==
    [i \in 1..Len(fields) |-> JsonString(fields[i][1]) \o <<":">> \o JsonFieldValue(fields[i][2])]

\* serde_json::to_string of a serialized struct (compact form).  It cannot
\* fail on these values: every map key is a string.
to_string(fields) == <<"{">> \o join(JsonFields(fields), <<",">>) \o <<"}">>

\* impl ResponseBuilder for JsonResponseBuilder
JsonBuild(error) == <<to_string(SerializeJsonResponseBody(error)), "application/json">>

\* dyn ResponseBuilder::build: the two implementations of the crate.
build(builder, error) ==
    CASE builder = "PlainText" -> PlainTextBuild(error)
      [] builder = "Json" -> JsonBuild(error)

\* into_response with the global default consulted before the instance builder.
into_response_global_first(self, cell) ==
    LET status_code == unwrap_or(from_u16(self.http_status), INTERNAL_SERVER_ERROR)
        out == IF get_default_response_builder(cell) # None
               THEN <<build(get_default_response_builder(cell)[1], self), "global">>
               ELSE IF self.response_builder # None
                    THEN <<build(self.response_builder[1], self), "instance">>
                    ELSE <<<<FallbackText(self), "text/plain">>, "builtin">>
    IN  [status |-> status_code,
         content_type |-> out[1][2],
         body |-> out[1][1],
         via |-> out[2]]

\* into_response passing http_status through without StatusCode::from_u16.
into_response_raw_status(self, cell) ==
    LET out == IF self.response_builder # None
               THEN <<build(self.response_builder[1], self), "instance">>
               ELSE IF get_default_response_builder(cell) # None
                    THEN <<build(get_default_response_builder(cell)[1], self), "global">>
                    ELSE <<<<FallbackText(self), "text/plain">>, "builtin">>
    IN  [status |-> self.http_status,
         content_type |-> out[1][2],
         body |-> out[1][1],
         via |-> out[2]]

\* into_response mapping the status in the fallback branch only.
into_response_status_in_fallback(self, cell) ==
    LET status_code == unwrap_or(from_u16(self.http_status), INTERNAL_SERVER_ERROR)
        out == IF self.response_builder # None
               THEN <<build(self.response_builder[1], self), "instance", INTERNAL_SERVER_ERROR>>
               ELSE IF get_default_response_builder(cell) # None
                    THEN <<build(get_default_response_builder(cell)[1], self), "global",
                           INTERNAL_SERVER_ERROR>>
                    ELSE <<<<FallbackText(self), "text/plain">>, "builtin", status_code>>
    IN  [status |-> out[3],
         content_type |-> out[1][2],
         body |-> out[1][1],
         via |-> out[2]]

\* impl IntoResponse for ServiceError, given what the OnceLock holds.  "via"
\* records the branch taken; it is not part of the Response.
into_response(self, cell) ==
    LET status_code == unwrap_or(from_u16(self.http_status), INTERNAL_SERVER_ERROR)
        out == IF self.response_builder # None
               THEN <<build(self.response_builder[1], self), "instance">>
               ELSE IF get_default_response_builder(cell) # None
                    THEN <<build(get_default_response_builder(cell)[1], self), "global">>
                    ELSE <<<<FallbackText(self), "text/plain">>, "builtin">>
    IN  [status |-> status_code,
         content_type |-> out[1][2],
         body |-> out[1][1],
         via |-> out[2]]

(***************************************************************************)
(* Inputs.                                                                 *)
(***************************************************************************)
SeqsUpTo(S, n) == UNION {[1..m -> S] : m \in 0..n}

Codes == {1001}
Names == {<<"B", "A", "D">>}
Statuses == {400, 9999}
\* SpecStatus: u16 values on both sides of every edge of StatusCode::from_u16.
EdgeStatuses == {0, 1, 99, 100, 101, 200, 404, 500, 599, 600, 999, 1000, 9999, 65535}
Messages == {<<"n", "o", " ", "{", "0", "}">>}
ArgTexts == {<<"x">>}
Builders == {"PlainText", "Json"}
Setters == 1..NumSetters

\* SpecFormat: every template made of these tokens (placeholders, lone
\* braces, a digit, a letter), and argument texts with and without braces.
TemplateTokens ==
    {<<"{", "0", "}">>, <<"{", "1", "}">>, <<"{", "2", "}">>,
     <<"{">>, <<"}">>, <<"1">>, <<"a">>}
Templates == {join(ts, <<>>) : ts \in SeqsUpTo(TemplateTokens, MaxTemplateTokens)}
FormatArgTexts == {<<>>, <<"x">>, <<"{">>, <<"{", "1", "}">>}

\* SpecParams: keys and values of the parameter mapping.
ParamKeys == {<<"f">>, <<"g">>, <<"h">>}
ParamValues == {PVString(<<"x">>), PVInteger(0 - 5), PVArray(<<PVBoolean(TRUE), PVNull>>)}
ParamPairs == {<<k, v>> : k \in ParamKeys, v \in ParamValues}

\* The last value an iterable writes to key k.
LastIn(params, k) ==
    params[CHOOSE i \in 1..Len(params) :
              /\ params[i][1] = k
              /\ \A j \in (i + 1)..Len(params) : params[j][1] # k][2]

Writes(params, k) == \E i \in 1..Len(params) : params[i][1] = k

(***************************************************************************)
(* Actions on the error.                                                   *)
(***************************************************************************)
New(codes, names, statuses, messages) ==
    /\ stage = "start"
    /\ \E code \in codes, name \in names, status \in statuses, message \in messages :
          err' = Some(new(code, name, status, message))
    /\ stage' = "building"
    /\ UNCHANGED <<cloned, cloneOf, DEFAULT_RESPONSE_BUILDER, setter, response,
                   serialized, formatted, lastWrite, writeCount, paramCalls>>

Bind(texts, max) ==
    /\ stage = "building"
    /\ Len(err[1].arguments) < max
    /\ \E value \in texts : err' = Some(bind(err[1], value))
    /\ UNCHANGED <<cloned, cloneOf, DEFAULT_RESPONSE_BUILDER, setter, response,
                   serialized, formatted, lastWrite, writeCount, paramCalls, stage>>

Parameter(keys, values) ==
    /\ stage = "building"
    /\ paramCalls < MaxParamCalls
    /\ \E key \in keys, value \in values :
          /\ \E e \in parameter(err[1], key, value) : err' = Some(e)
          /\ lastWrite' = [lastWrite EXCEPT ![key] = Some(value)]
    /\ writeCount' = writeCount + 1
    /\ paramCalls' = paramCalls + 1
    /\ UNCHANGED <<cloned, cloneOf, DEFAULT_RESPONSE_BUILDER, setter, response,
                   serialized, formatted, stage>>

Parameters(iterables, max) ==
    /\ stage = "building"
    /\ paramCalls < max
    /\ \E params \in iterables :
          /\ \E e \in parameters(err[1], params) : err' = Some(e)
          /\ lastWrite' = [k \in DOMAIN lastWrite |->
                              IF Writes(params, k) THEN Some(LastIn(params, k))
                              ELSE lastWrite[k]]
          /\ writeCount' = writeCount + Len(params)
    /\ paramCalls' = paramCalls + 1
    /\ UNCHANGED <<cloned, cloneOf, DEFAULT_RESPONSE_BUILDER, setter, response,
                   serialized, formatted, stage>>

WithResponseBuilder ==
    /\ stage = "building"
    /\ \E builder \in Builders : err' = Some(with_response_builder(err[1], builder))
    /\ UNCHANGED <<cloned, cloneOf, DEFAULT_RESPONSE_BUILDER, setter, response,
                   serialized, formatted, lastWrite, writeCount, paramCalls, stage>>

\* The built error is handed over: from here on it is only read, cloned
\* and rendered.
Clone ==
    /\ stage \in {"building", "handed"}
    /\ err # None
    /\ cloneOf = None
    /\ cloned' = Some(clone(err[1]))
    /\ cloneOf' = err
    /\ stage' = "handed"
    /\ UNCHANGED <<err, DEFAULT_RESPONSE_BUILDER, setter, response, serialized,
                   formatted, lastWrite, writeCount, paramCalls>>

\* serde_json::to_string(&error)
Serialize ==
    /\ stage \in {"building", "handed"}
    /\ err # None
    /\ serialized = None
    /\ serialized' = Some([fields |-> SerializeServiceError(err[1]),
                           text |-> to_string(SerializeServiceError(err[1])),
                           of |-> err[1]])
    /\ stage' = "handed"
    /\ UNCHANGED <<err, cloned, cloneOf, DEFAULT_RESPONSE_BUILDER, setter, response,
                   formatted, lastWrite, writeCount, paramCalls>>

\* error.format_message(), as the builders call it
FormatMessage ==
    /\ stage \in {"building", "handed"}
    /\ err # None
    /\ formatted = None
    /\ formatted' = Some([text |-> format_message(err[1]), of |-> err[1]])
    /\ stage' = "handed"
    /\ UNCHANGED <<err, cloned, cloneOf, DEFAULT_RESPONSE_BUILDER, setter, response,
                   serialized, lastWrite, writeCount, paramCalls>>

\* What a rendering leaves behind: the Response, the error rendered and
\* what the OnceLock held when it was read.
Rendered(self, cell) ==
    [resp |-> into_response(self, cell), of |-> self, cell |-> cell]

\* error.into_response(): consumes the error.
IntoResponse ==
    /\ stage \in {"building", "handed"}
    /\ err # None
    /\ response' = <<Some(Rendered(err[1], DEFAULT_RESPONSE_BUILDER)), response[2]>>
    /\ err' = None
    /\ stage' = "handed"
    /\ UNCHANGED <<cloned, cloneOf, DEFAULT_RESPONSE_BUILDER, setter, serialized,
                   formatted, lastWrite, writeCount, paramCalls>>

\* cloned.into_response(): consumes the clone.
IntoResponseClone ==
    /\ cloned # None
    /\ response' = <<response[1], Some(Rendered(cloned[1], DEFAULT_RESPONSE_BUILDER))>>
    /\ cloned' = None
    /\ UNCHANGED <<err, cloneOf, DEFAULT_RESPONSE_BUILDER, setter, serialized,
                   formatted, lastWrite, writeCount, paramCalls, stage>>

(***************************************************************************)
(* Threads calling set_default_response_builder.                           *)
(***************************************************************************)
\* set_default_response_builder: the OnceLock afterwards; .ok() drops the Result.
set_default_response_builder(cell, builder) == OnceLockSet(cell, builder)[1]

\* A thread enters set_default_response_builder with its builder boxed.
CallSetDefault(t) ==
    /\ setter[t].pc = "idle"
    /\ \E builder \in Builders :
          setter' = [setter EXCEPT ![t] = [pc |-> "boxed", builder |-> builder,
                                           result |-> "none"]]
    /\ UNCHANGED <<err, cloned, cloneOf, DEFAULT_RESPONSE_BUILDER, response,
                   serialized, formatted, lastWrite, writeCount, paramCalls, stage>>

\* DEFAULT_RESPONSE_BUILDER.set(..).ok(), and the return.
SetDefault(t) ==
    /\ setter[t].pc = "boxed"
    /\ DEFAULT_RESPONSE_BUILDER' =
          set_default_response_builder(DEFAULT_RESPONSE_BUILDER, setter[t].builder)
    /\ setter' = [setter EXCEPT
                    ![t].pc = "returned",
                    ![t].result = OnceLockSet(DEFAULT_RESPONSE_BUILDER, setter[t].builder)[2]]
    /\ UNCHANGED <<err, cloned, cloneOf, response, serialized, formatted, lastWrite,
                   writeCount, paramCalls, stage>>

(***************************************************************************)
(* Specifications.                                                         *)
(***************************************************************************)
InitCommon ==
    /\ cloned = None
    /\ cloneOf = None
    /\ DEFAULT_RESPONSE_BUILDER = None
    /\ setter = [t \in Setters |-> [pc |-> "idle", builder |-> "none", result |-> "none"]]
    /\ response = <<None, None>>
    /\ serialized = None
    /\ formatted = None
    /\ lastWrite = [k \in ParamKeys |-> None]
    /\ writeCount = 0
    /\ paramCalls = 0

\* Spec: one error built, cloned, serialized and rendered while threads
\* race to set the default response builder.
Init ==
    /\ InitCommon
    /\ err = None
    /\ stage = "start"

Next ==
    \/ New(Codes, Names, Statuses, Messages)
    \/ Bind(ArgTexts, MaxArgs)
    \/ Parameters({<<>>, <<<<<<"f">>, PVString(<<"x">>)>>>>}, MaxSpecParamCalls)
    \/ WithResponseBuilder
    \/ Clone
    \/ Serialize
    \/ IntoResponse
    \/ IntoResponseClone
    \/ \E t \in Setters : CallSetDefault(t)
    \/ \E t \in Setters : SetDefault(t)

Spec == Init /\ [][Next]_vars

\* SpecStatus: the status of the Response for u16 values around the edges of
\* StatusCode::from_u16, under every renderer branch.
NextStatus ==
    \/ New(Codes, Names, EdgeStatuses, {<<"b", "a", "d">>})
    \/ WithResponseBuilder
    \/ Clone
    \/ IntoResponse
    \/ IntoResponseClone
    \/ \E t \in Setters : CallSetDefault(t)
    \/ \E t \in Setters : SetDefault(t)

SpecStatus == Init /\ [][NextStatus]_vars

\* SpecFormat: format_message and serialization over every template and
\* argument list within the bounds.
InitFormat ==
    /\ InitCommon
    /\ \E message \in Templates :
          err = Some(new(1001, <<"B", "A", "D">>, 400, message))
    /\ stage = "building"

NextFormat ==
    \/ Bind(FormatArgTexts, MaxFormatArgs)
    \/ FormatMessage
    \/ Serialize

SpecFormat == InitFormat /\ [][NextFormat]_vars

\* SpecParams: the parameter mapping under every sequence of parameter and
\* parameters calls within the bounds, rendered by the builtin fallback.
InitParams ==
    /\ InitCommon
    /\ err = Some(new(1001, <<"B", "A", "D">>, 400, <<"b", "a", "d">>))
    /\ stage = "building"

NextParams ==
    \/ Parameter(ParamKeys, ParamValues)
    \/ Parameters(SeqsUpTo(ParamPairs, MaxIterLen), MaxParamCalls)
    \/ IntoResponse

SpecParams == InitParams /\ [][NextParams]_vars

(***************************************************************************)
(* Properties.                                                             *)
(***************************************************************************)
\* The renderings made so far: of the original and of the clone.
Renderings == {response[i][1] : i \in {j \in 1..2 : response[j] # None}}

\* C1: into_response selects one renderer by strict precedence.  With an
\* instance builder r attached, body and content type are exactly
\* r.build(e), whatever the OnceLock holds; without one and with the OnceLock
\* set, they are the default builder's; the builtin plain text is used only
\* when there is neither.
C1_RendererPrecedence ==
    \A r \in Renderings :
        LET e == r.of
            out == <<r.resp.body, r.resp.content_type>>
        IN  /\ e.response_builder # None =>
                /\ r.resp.via = "instance"
                /\ out = build(e.response_builder[1], e)
            /\ (e.response_builder = None /\ r.cell # None) =>
                /\ r.resp.via = "global"
                /\ out = build(r.cell[1], e)
            /\ (e.response_builder = None /\ r.cell = None) =>
                /\ r.resp.via = "builtin"
                /\ out = <<FallbackText(e), "text/plain">>
            /\ r.resp.via = "builtin" => (e.response_builder = None /\ r.cell = None)

\* C1 witness: an error with the Json builder attached was rendered while
\* the OnceLock held the PlainText builder, and the response is the Json one.
C1_Witness ==
    /\ response[1] # None
    /\ response[1][1].of.response_builder = Some("Json")
    /\ response[1][1].cell = Some("PlainText")
    /\ response[1][1].resp.content_type = "application/json"
    /\ response[1][1].resp.body # PlainTextBuild(response[1][1].of)[1]

\* An error with the fields of e, built without with_response_builder.
Unattached(e) ==
    [new(e.code, e.name, e.http_status, e.message) EXCEPT
        !.arguments = e.arguments, !.parameters = e.parameters]

\* C2: cloning drops the renderer.  The clone has the original's code, name,
\* http_status, message, arguments and parameters and no builder; rendering
\* it gives what an error with these fields and no builder attached gives,
\* and never goes through the instance builder of the original.
C2_CloneDropsRenderer ==
    /\ cloned # None =>
        /\ cloned[1].code = cloneOf[1].code
        /\ cloned[1].name = cloneOf[1].name
        /\ cloned[1].http_status = cloneOf[1].http_status
        /\ cloned[1].message = cloneOf[1].message
        /\ cloned[1].arguments = cloneOf[1].arguments
        /\ cloned[1].parameters = cloneOf[1].parameters
        /\ cloned[1].response_builder = None
    /\ response[2] # None =>
        /\ response[2][1].of = Unattached(cloneOf[1])
        /\ response[2][1].resp = into_response(Unattached(cloneOf[1]), response[2][1].cell)
        /\ response[2][1].resp.via # "instance"

\* C2 witness: the clone of an error carrying the Json builder, with bound
\* arguments and parameters, was rendered by the builtin fallback.
C2_Witness ==
    /\ response[2] # None
    /\ cloneOf[1].response_builder = Some("Json")
    /\ cloneOf[1].arguments # <<>>
    /\ cloneOf[1].parameters # None
    /\ response[2][1].cell = None
    /\ response[2][1].resp.content_type = "text/plain"
    /\ response[2][1].resp.body # JsonBuild(cloneOf[1])[1]

Winners == {t \in Setters : setter[t].result = "Ok"}

\* The OnceLock against the calls made so far: unset until a call has
\* returned, then the builder of the one call whose set succeeded.
SlotState ==
    /\ DEFAULT_RESPONSE_BUILDER = None => \A t \in Setters : setter[t].pc # "returned"
    /\ DEFAULT_RESPONSE_BUILDER # None =>
        /\ Cardinality(Winners) = 1
        /\ \A t \in Winners : DEFAULT_RESPONSE_BUILDER = Some(setter[t].builder)
    /\ \A t \in Setters : setter[t].pc = "returned" => setter[t].result \in {"Ok", "Err"}

\* One step of the OnceLock: once set it never changes; it becomes set only
\* by the call that finds it unset, to that call's builder; a call that
\* finds it set returns normally and leaves the renderings as they were.
SlotStep ==
    /\ DEFAULT_RESPONSE_BUILDER # None => DEFAULT_RESPONSE_BUILDER' = DEFAULT_RESPONSE_BUILDER
    /\ (DEFAULT_RESPONSE_BUILDER = None /\ DEFAULT_RESPONSE_BUILDER' # None) =>
        \E t \in Setters :
            /\ setter[t].pc = "boxed"
            /\ setter'[t].pc = "returned"
            /\ setter'[t].result = "Ok"
            /\ DEFAULT_RESPONSE_BUILDER' = Some(setter[t].builder)
    /\ \A t \in Setters :
        (DEFAULT_RESPONSE_BUILDER # None /\ setter[t].pc = "boxed" /\ setter'[t].pc = "returned") =>
            /\ setter'[t].result = "Err"
            /\ err # None =>
                into_response(err[1], DEFAULT_RESPONSE_BUILDER')
                    = into_response(err[1], DEFAULT_RESPONSE_BUILDER)

\* C3: the default response builder is set at most once and the first
\* writer wins: under every interleaving of the calling threads and the
\* renderings, the OnceLock goes from unset to the builder of exactly one
\* call and never changes afterwards; every later call is a silent no-op.
C3_SetOnceFirstWriterWins == [](SlotState) /\ [][SlotStep]_vars

\* C3 witness: two calls with different builders have returned; the
\* OnceLock holds the builder of the one that succeeded.
C3_Witness ==
    \E t1, t2 \in Setters :
        /\ setter[t1].pc = "returned" /\ setter[t1].result = "Ok"
        /\ setter[t2].pc = "returned" /\ setter[t2].result = "Err"
        /\ setter[t1].builder # setter[t2].builder
        /\ DEFAULT_RESPONSE_BUILDER = Some(setter[t1].builder)

\* C4: status mapping never fails.  Rendering the error at hand yields a
\* Response with a status in 100..=999 whatever its http_status, and every
\* Response made has http_status as its status when that is 100..=999
\* (what StatusCode::from_u16 accepts) and 500 otherwise.
C4_StatusNeverFails ==
    /\ err # None =>
        into_response(err[1], DEFAULT_RESPONSE_BUILDER).status \in 100..999
    /\ \A r \in Renderings :
        LET s == r.of.http_status
        IN  IF 100 <= s /\ s <= 999 THEN r.resp.status = s ELSE r.resp.status = 500

\* C4 witness: an error with http_status 9999 was rendered with status 500.
C4_Witness ==
    /\ response[1] # None
    /\ response[1][1].of.http_status = 9999
    /\ response[1][1].resp.status = 500

\* The placeholder {i}, i below n, that text starts with; 0 when none.
PlaceholderAt(text, n) ==
    IF \E i \in 1..n : StartsWith(text, <<"{">> \o ToDecimal(i - 1) \o <<"}">>)
    THEN CHOOSE i \in 1..n : StartsWith(text, <<"{">> \o ToDecimal(i - 1) \o <<"}">>)
    ELSE 0

\* Positional substitution on the template alone: one scan of the template,
\* each {i} with i below the number of arguments gives way to argument i.
RECURSIVE PositionalSubstitution(_, _)
PositionalSubstitution(template, arguments) ==
    IF template = <<>> THEN <<>>
    ELSE LET i == PlaceholderAt(template, Len(arguments))
         IN  IF i = 0
             THEN <<template[1]>> \o PositionalSubstitution(Tail(template), arguments)
             ELSE arguments[i] \o
                  PositionalSubstitution(
                      SubSeq(template, Len(ToDecimal(i - 1)) + 3, Len(template)), arguments)

\* C5: format_message returns the positional substitution of the template:
\* every {i} of the template with i below the number of arguments replaced
\* by argument i, all other text unchanged, argument text never substituted
\* itself, a surplus argument without effect.
C5_PositionalSubstitution ==
    formatted # None =>
        formatted[1].text =
            PositionalSubstitution(formatted[1].of.message, formatted[1].of.arguments)

\* Occurrences of pat in s.
Count(s, pat) ==
    Cardinality({i \in 1..(Len(s) - Len(pat) + 1) : SubSeq(s, i, i + Len(pat) - 1) = pat})

\* C6: a placeholder without an argument stays.  With n arguments bound,
\* every {i} with i >= n occurs in the result of format_message at least as
\* often as in the template, and with no arguments the result is the template.
C6_UnboundPlaceholderStays ==
    formatted # None =>
        LET e == formatted[1].of
            n == Len(e.arguments)
        IN  /\ n = 0 => formatted[1].text = e.message
            /\ \A i \in n..9 :
                Count(formatted[1].text, <<"{", Digit(i), "}">>)
                    >= Count(e.message, <<"{", Digit(i), "}">>)

\* C6 witness: one argument bound to a template holding {0} and {1}; {0}
\* was substituted and {1} is still there.
C6_Witness ==
    /\ formatted # None
    /\ Len(formatted[1].of.arguments) = 1
    /\ Count(formatted[1].of.message, <<"{", "0", "}">>) = 1
    /\ Count(formatted[1].of.message, <<"{", "1", "}">>) = 1
    /\ formatted[1].text # formatted[1].of.message
    /\ Count(formatted[1].text, <<"{", "1", "}">>) = 1

\* C7: the serialized ServiceError holds code, name and message, holds
\* parameters exactly when the mapping is present, and never http_status,
\* arguments or response_builder, whatever was bound or attached.
C7_SerializationExclusion ==
    serialized # None =>
        LET names == FieldNames(serialized[1].fields)
            e == serialized[1].of
        IN  /\ {FieldCode, FieldName, FieldMessage} \subseteq names
            /\ FieldParameters \in names <=> e.parameters # None
            /\ names \cap {FieldHttpStatus, FieldArguments, FieldResponseBuilder} = {}
            /\ names \subseteq {FieldCode, FieldName, FieldMessage, FieldParameters}
            /\ Len(serialized[1].fields) = Cardinality(names)
            /\ FieldValue(serialized[1].fields, FieldCode) = <<"u32", e.code>>
            /\ FieldValue(serialized[1].fields, FieldName) = <<"str", e.name>>
            /\ e.parameters # None =>
                FieldValue(serialized[1].fields, FieldParameters) = <<"map", e.parameters[1]>>

\* C7 witness: an error with a bound argument, parameters and a builder
\* attached was serialized.
C7_Witness ==
    /\ serialized # None
    /\ serialized[1].of.arguments # <<>>
    /\ serialized[1].of.parameters # None
    /\ serialized[1].of.response_builder # None
    /\ Len(serialized[1].fields) = 4

\* C8: the message of the serialized ServiceError is the formatted message,
\* the template with the bound arguments substituted.
C8_SerializedMessageFormatted ==
    serialized # None =>
        FieldValue(serialized[1].fields, FieldMessage)
            = <<"str", format_message(serialized[1].of)>>

\* C9: the builtin fallback renders "Error {code}: {name} - {formatted
\* message}" as text/plain, followed by " (Parameters: {k: v, ...})" exactly
\* when the parameters are non-empty; absent or empty parameters give no suffix.
C9_FallbackSuffixOnlyWhenNonEmpty ==
    \A r \in Renderings :
        r.resp.via = "builtin" =>
            /\ r.resp.content_type = "text/plain"
            /\ r.resp.body =
                IF r.of.parameters # None /\ r.of.parameters[1] # <<>>
                THEN ErrorHead(r.of) \o ParametersTail(r.of.parameters[1])
                ELSE ErrorHead(r.of)

\* C10: after any parameter / parameters calls the mapping has unique keys,
\* holds exactly the keys written, each with the value of its last write,
\* and is absent until the first call.
C10_ParametersLastWriteWins ==
    err # None =>
        LET p == err[1].parameters
        IN  /\ paramCalls = 0 <=> p = None
            /\ p # None =>
                /\ \A i, j \in 1..Len(p[1]) : p[1][i][1] = p[1][j][1] => i = j
                /\ Keys(p[1]) = {k \in DOMAIN lastWrite : lastWrite[k] # None}
                /\ \A k \in Keys(p[1]) : MapGet(p[1], k) = lastWrite[k][1]

\* C10 witness: two calls wrote four items to two keys, so a key was
\* written more than once, and both keys hold their last values.
C10_Witness ==
    /\ err # None
    /\ paramCalls = 2
    /\ writeCount = 4
    /\ err[1].parameters # None
    /\ Len(err[1].parameters[1]) = 2
    /\ \A k \in Keys(err[1].parameters[1]) : MapGet(err[1].parameters[1], k) = lastWrite[k][1]

\* What the OnceLock can hold.
Cells == {None} \cup {Some(b) : b \in Builders}

\* C11: the status of the Response depends on http_status alone.  The
\* original and its clone render with the same status whichever branch
\* each takes, and for the error at hand the status is the same with any
\* builder attached or none, whatever the OnceLock holds.
C11_StatusIndependentOfRenderer ==
    /\ (response[1] # None /\ response[2] # None) =>
        response[1][1].resp.status = response[2][1].resp.status
    /\ \A r1, r2 \in Renderings :
        r1.of.http_status = r2.of.http_status => r1.resp.status = r2.resp.status
    /\ err # None =>
        LET status == into_response(Unattached(err[1]), None).status
        IN  \A c \in Cells :
                /\ into_response(err[1], c).status = status
                /\ into_response(Unattached(err[1]), c).status = status
                /\ \A b \in Builders :
                    into_response(with_response_builder(err[1], b), c).status = status

\* C11 witness: an error with status 404 was rendered by its instance
\* builder and its clone by the builtin fallback, both with status 404.
C11_Witness ==
    /\ response[1] # None
    /\ response[2] # None
    /\ response[1][1].resp.via = "instance"
    /\ response[2][1].resp.via = "builtin"
    /\ response[1][1].of.http_status = 404
    /\ response[1][1].resp.status = 404
    /\ response[2][1].resp.status = 404

\* C12: PlainTextResponseBuilder and the builtin fallback are equivalent.
\* For the error at hand build returns the body and content type of the
\* fallback, and every Response made through PlainTextResponseBuilder, as
\* instance or as global builder, is the one the fallback gives that error.
C12_PlainTextEqualsFallback ==
    /\ err # None =>
        PlainTextBuild(err[1]) = <<FallbackText(err[1]), "text/plain">>
    /\ \A r \in Renderings :
        LET used == IF r.resp.via = "instance" THEN r.of.response_builder
                    ELSE IF r.resp.via = "global" THEN r.cell
                    ELSE None
        IN  used = Some("PlainText") =>
                /\ r.resp.body = into_response(Unattached(r.of), None).body
                /\ r.resp.content_type = into_response(Unattached(r.of), None).content_type
                /\ r.resp.status = into_response(Unattached(r.of), None).status
                /\ into_response(Unattached(r.of), None).via = "builtin"

\* C12 witness: an error with a bound argument and an empty parameter
\* mapping was rendered through the global PlainTextResponseBuilder.
C12_Witness ==
    /\ response[1] # None
    /\ response[1][1].resp.via = "global"
    /\ response[1][1].cell = Some("PlainText")
    /\ response[1][1].of.parameters = Some(<<>>)
    /\ response[1][1].of.arguments # <<>>
    /\ response[1][1].resp.body = FallbackText(response[1][1].of)

====
